---- MODULE Spec2Model ----
(***************************************************************************)
(* Model of xcel_itron2mqtt: the XcelEndpoint poll-parse-publish pipeline  *)
(* (xcel_endpoint.py), the tenacity retry policy wrapped around its query, *)
(* the shared Mqtt object (mqtt.py), the XcelMeter poll loop               *)
(* (xcel_meter.py) and the process entry point (main.py).                  *)
(*                                                                         *)
(* Specifications:                                                         *)
(*   SpecEndpoint  one Endpoint: create_endpoint, then run() again and     *)
(*                 again, over every schema of Schemas and every response  *)
(*                 of Responses.                                           *)
(*   SpecMqtt      the Mqtt object, await by await, under NumCallers       *)
(*                 tasks that call its methods concurrently.               *)
(*   Spec          XcelMeter.run() over NumEndpoints Endpoints.            *)
(*   SpecMain      main(): setup() of every meter of METERS in turn, under *)
(*                 its retry policy, and the TaskGroup of their run()s.    *)
(*   SpecTopic     the topic prefix properties and create_config's state   *)
(*                 topics, over the prefixes and meter names configured.   *)
(*   SpecConfig    mqtt_send_config of one Endpoint, branch by branch of   *)
(*                 its gather, over every schema of Schemas.               *)
(***************************************************************************)
EXTENDS Integers, Sequences, FiniteSets, TLC

(***************************************************************************)
(* Bounds of the model.                                                    *)
(***************************************************************************)
\* The most entries a variant list of a schema holds.
MaxItems == 2
\* The number of Endpoints of the polled meter.
NumEndpoints == 3
\* The number of tasks that call the shared Mqtt object, and the most
\* calls each makes.
NumCallers == 2
MaxOps == 2
\* The entries of METERS.
NumMeters == 2
\* The poll cycles counted for a meter's run() under main().
MaxPolls == 2
\* The most endpoints in configs/endpoints_*.yaml.
MaxFileEndpoints == 1

(***************************************************************************)
(* Program constants.                                                      *)
(***************************************************************************)
\* stop_after_attempt(15)
StopAfterAttempt == 15
\* wait_exponential(multiplier=1, min=1, max=15)
WaitMultiplier == 1
WaitMin == 1
WaitMax == 15
WaitExpBase == 2
\* Mqtt._watchdog: asyncio.sleep(30)
WatchdogSleep == 30

EndpointIds == 1..NumEndpoints
Meters == 1..NumMeters
Callers == 1..NumCallers

\* Python's None: the text of an XML element that has no text.
None == "None"
\* root.find(...) found no such element.
Absent == "absent"
\* The texts an element of a response carries.
Texts == {"240"}
\* The element names (without the IEEE namespace prefix) of a response.
ElementNames == {"lFDI", "Voltage", "Current"}

(***************************************************************************)
(* A meter response: its HTTP status code and its body, which is malformed *)
(* XML (ET.fromstring raises), or a tree that gives, for every element     *)
(* name, the text of the first element of that name (None when it has no   *)
(* text) or no such element.                                               *)
(***************************************************************************)
\* The status codes a response carries: one 2xx, one that is not.
StatusCodes == {200, 500}
Is2xx(status) == 200 <= status /\ status <= 299

Bodies ==
  {[wellformed |-> FALSE, elems |-> [n \in ElementNames |-> Absent]]}
  \cup {[wellformed |-> TRUE, elems |-> f] :
          f \in [ElementNames -> {Absent, None} \cup Texts]}

Responses ==
  {[status |-> st, wellformed |-> b.wellformed, elems |-> b.elems] :
     st \in StatusCodes, b \in Bodies}

(***************************************************************************)
(* The tag schema of an Endpoint (the "tags" dict of endpoints_*.yaml), in *)
(* the dict's order.  An entry is a scalar leaf (its value is the details  *)
(* dict of one sensor) or a list; a list item is a dict from variant names *)
(* to details (names in insertion order), or something that is no dict.    *)
(***************************************************************************)
Details == [entity_type |-> "sensor", device_class |-> "energy"]

Items ==
  {[isdict |-> TRUE, names |-> s] :
     s \in {<<>>, <<"Voltage">>, <<"Current">>, <<"Voltage", "Current">>}}
  \cup {[isdict |-> FALSE, names |-> <<>>]}

ItemLists == UNION {[1..n -> Items] : n \in 0..MaxItems}

ScalarEntry(k) == [k |-> k, islist |-> FALSE, items |-> <<>>]
ListEntry(k, its) == [k |-> k, islist |-> TRUE, items |-> its]

Schemas ==
  {<<>>, <<ScalarEntry("lFDI")>>}
  \cup {<<ListEntry("Reading", its)>> : its \in ItemLists}
  \cup {<<ScalarEntry("lFDI"), ListEntry("Reading", its)>> : its \in ItemLists}

\* The empty dict, and d with d[k] = v set (Python's d[k] = v).
EmptyDict == << >>
DictSet(d, k, v) == [x \in (DOMAIN d) \cup {k} |-> IF x = k THEN v ELSE d[x]]

(***************************************************************************)
(* XcelEndpoint.parse_response: the readings dict, built in the order of   *)
(* the code's loops (a later assignment to a key replaces an earlier one). *)
(***************************************************************************)
RECURSIVE ParseNames(_, _, _, _)
ParseNames(elems, k, names, readings) ==
  IF names = <<>> THEN readings
  ELSE LET k2 == Head(names)
           r  == IF elems[k2] # Absent
                 THEN DictSet(readings, k \o k2, elems[k2])
                 ELSE readings
       IN ParseNames(elems, k, Tail(names), r)

RECURSIVE ParseItems(_, _, _, _)
ParseItems(elems, k, items, readings) ==
  IF items = <<>> THEN readings
  ELSE LET it == Head(items)
           r  == IF ~it.isdict THEN readings
                 ELSE ParseNames(elems, k, it.names, readings)
       IN ParseItems(elems, k, Tail(items), r)

RECURSIVE ParseTags(_, _, _)
ParseTags(elems, tgs, readings) ==
  IF tgs = <<>> THEN readings
  ELSE LET t == Head(tgs)
           r == IF t.islist THEN ParseItems(elems, t.k, t.items, readings)
                ELSE IF elems[t.k] # Absent
                     THEN DictSet(readings, t.k, elems[t.k])
                     ELSE readings
       IN ParseTags(elems, Tail(tgs), r)

parse_response(response, tgs) == ParseTags(response.elems, tgs, EmptyDict)

(***************************************************************************)
(* Strings the code edits are sequences of pieces (a word, "/" or " ");    *)
(* Str joins the pieces into the string that goes on the wire.             *)
(***************************************************************************)
RECURSIVE Str(_)
Str(pieces) == IF pieces = <<>> THEN "" ELSE Head(pieces) \o Str(Tail(pieces))

\* str.lower() and str.replace(" ", "_"), piece by piece.
Lower(piece) ==
  CASE piece = "Meter" -> "meter"
    [] piece = "A" -> "a"
    [] piece = "B" -> "b"
    [] OTHER -> piece
LowerAll(pieces) == [i \in 1..Len(pieces) |-> Lower(pieces[i])]
ReplaceSpaces(pieces) ==
  [i \in 1..Len(pieces) |-> IF pieces[i] = " " THEN "_" ELSE pieces[i]]

\* The mqtt_prefix, meter_name and name arguments an Endpoint is built with.
MqttPrefix == <<"homeassistant", "/">>
MeterName == <<"Meter", " ", "A", " ", "(123)">>
EndpointName(e) == IF e = 1 THEN <<"Instantaneous", " ", "Demand">>
                   ELSE IF e = 2 THEN <<"Current", " ", "Summation", " ", "Received">>
                   ELSE <<"Endpoint", " ", ToString(e)>>

\* XcelEndpoint.__init__: self.meter_name = meter_name.replace(" ", "_").lower()
EndpointMeterName(mname) == LowerAll(ReplaceSpaces(mname))

\* create_config: mqtt_friendly_name = self.name.replace(" ", "_")
FriendlyName(name) == ReplaceSpaces(name)

\* XcelMeter.mqtt_topic_prefix: prefix[-1] raises IndexError on the empty
\* string; else one trailing "/" is dropped.
MeterTopicPrefix(prefix) ==
  IF prefix = <<>> THEN [outcome |-> "IndexError", value |-> <<>>]
  ELSE [outcome |-> "returned",
        value |-> IF prefix[Len(prefix)] = "/"
                  THEN SubSeq(prefix, 1, Len(prefix) - 1) ELSE prefix]

\* XcelEndpoint.mqtt_topic_prefix: one trailing "/" is dropped.
EndpointTopicPrefix(prefix) ==
  IF prefix # <<>> /\ prefix[Len(prefix)] = "/"
  THEN SubSeq(prefix, 1, Len(prefix) - 1)
  ELSE prefix

\* The state and config topics XcelEndpoint.create_config composes:
\* {mqtt_topic_prefix}/{entity_type}/{meter_name}/{mqtt_friendly_name}/
\* {sensor_name}/state (or config).
Topic(prefix, entity_type, mname, name, sensor_name, leaf) ==
  Str(EndpointTopicPrefix(prefix)) \o "/" \o entity_type
    \o "/" \o Str(EndpointMeterName(mname))
    \o "/" \o Str(FriendlyName(name))
    \o "/" \o sensor_name \o "/" \o leaf

TopicFor(e, entity_type, sensor_name, leaf) ==
  Topic(MqttPrefix, entity_type, MeterName, EndpointName(e), sensor_name, leaf)

\* XcelEndpoint.create_config: the (topic, payload) of one discovery config;
\* entity_type is popped from the payload, state_topic is added.
create_config(e, sensor_name, details) ==
  [topic   |-> TopicFor(e, details.entity_type, sensor_name, "config"),
   payload |-> [state_topic  |-> TopicFor(e, details.entity_type, sensor_name, "state"),
                sensor_name  |-> sensor_name,
                device_class |-> details.device_class],
   retain  |-> TRUE]

(***************************************************************************)
(* XcelEndpoint.mqtt_send_config.  process_obj configures the scalar leaf  *)
(* k; process_list_item pops ONE (name, details) pair of the item, the     *)
(* last inserted (dict.popitem), and configures k + name.  popitem raises  *)
(* on an item that is no dict (AttributeError) or an empty dict (KeyError).*)
(***************************************************************************)
ItemRaises(it) == ~it.isdict \/ it.names = <<>>

\* What process_list_item takes from the item: v_item.popitem().
PopItem(it) == it.names[Len(it.names)]

RECURSIVE ConfigItems(_, _)
ConfigItems(k, items) ==
  IF items = <<>> THEN <<>>
  ELSE (IF ItemRaises(Head(items)) THEN <<>> ELSE <<k \o PopItem(Head(items))>>)
       \o ConfigItems(k, Tail(items))

\* The sensor names create_config is called with, one per branch that does
\* not raise.
RECURSIVE ConfigNames(_)
ConfigNames(tgs) ==
  IF tgs = <<>> THEN <<>>
  ELSE (IF Head(tgs).islist THEN ConfigItems(Head(tgs).k, Head(tgs).items)
        ELSE <<Head(tgs).k>>)
       \o ConfigNames(Tail(tgs))

\* Some branch of mqtt_send_config raises, and so does create_endpoint.
ConfigRaises(tgs) ==
  \E i \in 1..Len(tgs) :
    tgs[i].islist /\ \E j \in 1..Len(tgs[i].items) : ItemRaises(tgs[i].items[j])

\* The discovery configs published, in the order of ConfigNames.
ConfigMessages(e, tgs) ==
  [i \in 1..Len(ConfigNames(tgs)) |-> create_config(e, ConfigNames(tgs)[i], Details)]

\* self._sensor_state_topics after mqtt_send_config.
SensorStateTopics(e, tgs) ==
  LET names == ConfigNames(tgs)
  IN [n \in {names[i] : i \in 1..Len(names)} |->
        create_config(e, n, Details).payload.state_topic]

(***************************************************************************)
(* XcelEndpoint.process_send_mqtt, up to its gather: mqtt_topic_message,   *)
(* or KeyError when a key of the reading has no entry in                   *)
(* _sensor_state_topics.                                                   *)
(***************************************************************************)
RouteRaises(reading, topics) == \E k \in DOMAIN reading : k \notin DOMAIN topics

mqtt_topic_message(reading, topics) ==
  [t \in {topics[k] : k \in DOMAIN reading} |->
     reading[CHOOSE k \in DOMAIN reading : topics[k] = t]]

(***************************************************************************)
(* tenacity: @retry(stop=stop_after_attempt(15),                           *)
(*   wait=wait_exponential(multiplier=1, min=1, max=15), reraise=True).    *)
(***************************************************************************)
RECURSIVE Pow(_, _)
Pow(b, n) == IF n = 0 THEN 1 ELSE b * Pow(b, n - 1)
Max2(a, b) == IF a >= b THEN a ELSE b
Min2(a, b) == IF a <= b THEN a ELSE b

\* A stop test that lets one attempt too many through.
stop_after_attempt_late(attempt) == attempt > StopAfterAttempt

\* stop_after_attempt: stop once attempt_number >= max_attempt_number.
stop_after_attempt(attempt) == attempt >= StopAfterAttempt

\* A wait that raises the base to attempt_number, not attempt_number - 1.
wait_exponential_shifted(attempt) ==
  Max2(Max2(0, WaitMin), Min2(WaitMultiplier * Pow(WaitExpBase, attempt), WaitMax))

\* wait_exponential.__call__: multiplier * exp_base^(attempt_number - 1),
\* clamped to [min, max].
wait_exponential(attempt) ==
  Max2(Max2(0, WaitMin), Min2(WaitMultiplier * Pow(WaitExpBase, attempt - 1), WaitMax))

(***************************************************************************)
(* State.                                                                  *)
(***************************************************************************)
VARIABLES
  tags,                 \* [e]: self.tags
  config_branch,        \* [e]: where each branch of mqtt_send_config's gather is
  sensor_state_topics,  \* [e]: self._sensor_state_topics
  epc,                  \* [e]: where the Endpoint's task is
  attempt_number,       \* [e]: tenacity's retry_state.attempt_number
  waits,                \* [e]: the waits tenacity slept in this query_endpoint call
  http_failures,        \* [e]: how often session.get raised in this call
  raised_error,         \* [e]: the attempt whose exception query_endpoint re-raised
  response,             \* [e]: the body query_endpoint returned in this run()
  current_response,     \* [e]: self.current_response, the reading
  pending,              \* [e]: the publish branches of the gather not yet run
  error,                \* [e]: the exception that ended create_endpoint or run()
  state_log,            \* [e]: the state messages of this run() the client took, in order
  config_log,           \* [e]: the discovery messages the client took
  connected,            \* Mqtt.connected
  watchdog_task,        \* Mqtt._watchdog_task
  watchdog_alive,       \* the tasks of Mqtt._watchdog that have not ended
  lock_holder,          \* Mqtt._connect_lock: the task that holds it, 0 for none
  lock_waiters,         \* Mqtt._connect_lock: the tasks that wait for it, in order
  cpc,                  \* [c]: the await a task's call of the Mqtt object is at
  cop,                  \* [c]: the method of Mqtt the task is in
  op_log,               \* [c]: the methods the task has called
  entry_connected,      \* [c]: self.connected as the task's call found it
  connect_results,      \* how the calls of client.connect ended, in order
  last_ping,            \* the watchdog's last ping: the sleep before it, how it ended
  mpc,                  \* where the task of XcelMeter.run() is
  cancelled,            \* the task of XcelMeter.run() has been cancelled
  process,              \* asyncio.run(main()): running or exited
  http_down,            \* [e]: the meter fails every GET of the Endpoint's url
  meter,                \* main: the entry of METERS its loop is at
  setup_pc,             \* main: the await the call of meter.setup() is at
  setup_attempt,        \* [m]: tenacity's attempt_number in meter.setup()
  setup_waits,          \* [m]: the waits tenacity slept in meter.setup()
  hw_failures,          \* [m]: the attempts that failed to identify the hardware
  hw_identified,        \* [m]: the attempts that identified the hardware
  setup_error,          \* [m]: the exception meter.setup() re-raised
  initalized,           \* [m]: XcelMeter.initalized
  run_task,             \* [m]: the task main's TaskGroup runs meter.run() in
  polls,                \* [m]: the poll cycles of meter.run() (up to MaxPolls)
  endpoints_file,       \* the number of endpoints in configs/endpoints_*.yaml
  device_config_log,    \* the device discovery messages the client took
  meter_prefix,         \* XcelMeter._mqtt_prefix: MQTT_TOPIC_PREFIX, or ""
  meter_name,           \* XcelMeter.name
  meter_topic_prefix,   \* what XcelMeter.mqtt_topic_prefix gave, if evaluated
  endpoint_topic_prefix, \* what XcelEndpoint.mqtt_topic_prefix gave, if evaluated
  state_topics,         \* the state topics create_config has recorded
  topic_table           \* (arguments, state topic) of create_config calls

endpointVars == <<tags, config_branch, sensor_state_topics, epc, attempt_number, waits,
                  http_failures, raised_error, response, current_response,
                  pending, error, state_log, config_log>>
callerVars == <<lock_holder, lock_waiters, cpc, cop, op_log, entry_connected, connect_results,
                last_ping>>
mqttVars == <<connected, watchdog_task, watchdog_alive, callerVars>>
topicVars == <<meter_prefix, meter_name, meter_topic_prefix,
               endpoint_topic_prefix, state_topics, topic_table>>
mainVars == <<meter, setup_pc, setup_attempt, setup_waits, hw_failures, hw_identified,
              setup_error, initalized, run_task, polls, endpoints_file, device_config_log, topicVars>>
meterVars == <<mpc, cancelled, process, http_down, mainVars>>
vars == <<endpointVars, mqttVars, meterVars>>

NoResponse == [status |-> 0, wellformed |-> FALSE, elems |-> EmptyDict]
NoError == "none"

\* The watchdog has not pinged.
NoPing == [slept |-> 0, result |-> "none"]

\* Mqtt.__init__
MqttInit ==
  /\ connected = FALSE
  /\ watchdog_task = "None"
  /\ watchdog_alive = 0
  /\ lock_holder = 0
  /\ lock_waiters = <<>>
  /\ cpc = [c \in Callers |-> "idle"]
  /\ cop = [c \in Callers |-> "none"]
  /\ op_log = [c \in Callers |-> <<>>]
  /\ entry_connected = [c \in Callers |-> FALSE]
  /\ connect_results = <<>>
  /\ last_ping = NoPing

\* A property that has not been evaluated; one that returned value.
NotEvaluated == [outcome |-> "none", value |-> <<>>]
Returned(value) == [outcome |-> "returned", value |-> value]

\* The meter is configured with MqttPrefix and MeterName; no topic
\* property has been evaluated.
TopicIdle ==
  /\ meter_prefix = MqttPrefix
  /\ meter_name = MeterName
  /\ meter_topic_prefix = NotEvaluated
  /\ endpoint_topic_prefix = NotEvaluated
  /\ state_topics = {}
  /\ topic_table = {}

\* main() is not part of the run: no XcelMeter has been constructed by it.
MainIdle ==
  /\ meter = 0
  /\ setup_pc = "none"
  /\ setup_attempt = [m \in Meters |-> 0]
  /\ setup_waits = [m \in Meters |-> <<>>]
  /\ hw_failures = [m \in Meters |-> 0]
  /\ hw_identified = [m \in Meters |-> 0]
  /\ setup_error = [m \in Meters |-> NoError]
  /\ initalized = [m \in Meters |-> FALSE]
  /\ run_task = [m \in Meters |-> "none"]
  /\ polls = [m \in Meters |-> 0]
  /\ endpoints_file = 0
  /\ device_config_log = {}

\* No XcelMeter.run() has been started.
RunIdle ==
  /\ mpc = "none"
  /\ cancelled = FALSE
  /\ process = "running"
  /\ http_down = [e \in EndpointIds |-> FALSE]

MeterIdle == RunIdle /\ MainIdle /\ TopicIdle

\* XcelEndpoint.__init__ has not run for any Endpoint; schema(e) is its tags.
EndpointsInit(schema) ==
  /\ tags = schema
  /\ config_branch = [e \in EndpointIds |-> <<>>]
  /\ sensor_state_topics = [e \in EndpointIds |-> EmptyDict]
  /\ epc = [e \in EndpointIds |-> "absent"]
  /\ attempt_number = [e \in EndpointIds |-> 0]
  /\ waits = [e \in EndpointIds |-> <<>>]
  /\ http_failures = [e \in EndpointIds |-> 0]
  /\ raised_error = [e \in EndpointIds |-> 0]
  /\ response = [e \in EndpointIds |-> NoResponse]
  /\ current_response = [e \in EndpointIds |-> EmptyDict]
  /\ pending = [e \in EndpointIds |-> EmptyDict]
  /\ error = [e \in EndpointIds |-> NoError]
  /\ state_log = [e \in EndpointIds |-> <<>>]
  /\ config_log = [e \in EndpointIds |-> <<>>]

(***************************************************************************)
(* Mqtt.publish as one step of its caller: connect() when not connected    *)
(* (client.connect succeeds or raises; the exception is logged inside      *)
(* connect), then client.publish.  A client that is not connected takes no *)
(* message.  taken: the client took the message.                           *)
(***************************************************************************)
\* Mqtt.start_watchdog
start_watchdog(task) == IF task \in {"None", "done"} THEN "running" ELSE task

\* Mqtt.start_watchdog: asyncio.create_task adds a task of _watchdog to
\* those alive.
WatchdogsAfterStart(task, alive) ==
  IF task \in {"None", "done"} THEN alive + 1 ELSE alive

MqttPublish(connect_ok, publish_ok, taken) ==
  /\ connected' = (connected \/ connect_ok)
  /\ watchdog_task' = IF ~connected /\ connect_ok
                      THEN start_watchdog(watchdog_task) ELSE watchdog_task
  /\ watchdog_alive' = IF ~connected /\ connect_ok
                       THEN WatchdogsAfterStart(watchdog_task, watchdog_alive)
                       ELSE watchdog_alive
  /\ taken = (connected' /\ publish_ok)
  /\ UNCHANGED callerVars

\* Mqtt.disconnect as one step of its caller: when connected, the watchdog
\* is cancelled and awaited, then client.disconnect() returns
\* (connected = False) or raises.
MqttDisconnect(ok) ==
  /\ connected' = IF connected /\ ok THEN FALSE ELSE connected
  /\ watchdog_task' = IF connected /\ watchdog_task = "running" THEN "done"
                      ELSE watchdog_task
  /\ watchdog_alive' = IF connected /\ watchdog_task = "running"
                       THEN watchdog_alive - 1 ELSE watchdog_alive
  /\ UNCHANGED callerVars

(***************************************************************************)
(* XcelEndpoint.create_endpoint: __init__, then mqtt_send_config.  Every   *)
(* branch that does not raise records its state topic and publishes its    *)
(* config (retain=True); when a branch raises, create_endpoint raises and  *)
(* no Endpoint is returned.                                                *)
(***************************************************************************)
CreateEndpoint(e) ==
  /\ epc[e] = "absent"
  /\ \E connect_ok \in BOOLEAN, publish_ok \in BOOLEAN :
       \E taken \in BOOLEAN :
         /\ MqttPublish(connect_ok, publish_ok, taken)
         /\ sensor_state_topics' =
              [sensor_state_topics EXCEPT ![e] = SensorStateTopics(e, tags[e])]
         /\ config_log' = [config_log EXCEPT ![e] =
              IF taken THEN ConfigMessages(e, tags[e]) ELSE <<>>]
         /\ IF ConfigRaises(tags[e])
            THEN /\ epc' = [epc EXCEPT ![e] = "create_failed"]
                 /\ error' = [error EXCEPT ![e] = "PopItemError"]
            ELSE IF ~taken /\ ConfigNames(tags[e]) # <<>>
            THEN /\ epc' = [epc EXCEPT ![e] = "create_failed"]
                 /\ error' = [error EXCEPT ![e] = "MqttError"]
            ELSE /\ epc' = [epc EXCEPT ![e] = "ready"]
                 /\ error' = [error EXCEPT ![e] = NoError]
  /\ UNCHANGED <<tags, config_branch, attempt_number, waits, http_failures,
                 raised_error, response, current_response, pending, state_log>>
  /\ UNCHANGED meterVars

(***************************************************************************)
(* XcelEndpoint.run -> get_reading -> query_endpoint: the call enters      *)
(* tenacity's loop and the first session.get is awaited.                   *)
(***************************************************************************)
RunStart(S) ==
  /\ epc' = [e \in EndpointIds |-> IF e \in S THEN "query" ELSE epc[e]]
  /\ attempt_number' = [e \in EndpointIds |-> IF e \in S THEN 1 ELSE attempt_number[e]]
  /\ waits' = [e \in EndpointIds |-> IF e \in S THEN <<>> ELSE waits[e]]
  /\ http_failures' = [e \in EndpointIds |-> IF e \in S THEN 0 ELSE http_failures[e]]
  /\ raised_error' = [e \in EndpointIds |-> IF e \in S THEN 0 ELSE raised_error[e]]
  /\ response' = [e \in EndpointIds |-> IF e \in S THEN NoResponse ELSE response[e]]
  /\ error' = [e \in EndpointIds |-> IF e \in S THEN NoError ELSE error[e]]
  /\ state_log' = [e \in EndpointIds |-> IF e \in S THEN <<>> ELSE state_log[e]]
  /\ pending' = [e \in EndpointIds |-> IF e \in S THEN EmptyDict ELSE pending[e]]
  /\ UNCHANGED <<tags, config_branch, sensor_state_topics, current_response, config_log>>

\* One caller awaits endpoint.run() of a constructed Endpoint whose earlier
\* run() and its branches have ended.
EndpointRun(e) ==
  /\ epc[e] \in {"ready", "done", "failed"}
  /\ DOMAIN pending[e] = {}
  /\ RunStart({e})
  /\ UNCHANGED mqttVars
  /\ UNCHANGED meterVars

(***************************************************************************)
(* session.get raises in attempt attempt_number.  tenacity stops and       *)
(* re-raises that exception (reraise=True) when stop_after_attempt says    *)
(* so; otherwise it sleeps wait_exponential and starts the next attempt.   *)
(***************************************************************************)
HttpGetRaises(e) ==
  /\ epc[e] = "query"
  /\ http_failures' = [http_failures EXCEPT ![e] = @ + 1]
  /\ IF stop_after_attempt(attempt_number[e])
     THEN /\ epc' = [epc EXCEPT ![e] = "failed"]
          /\ error' = [error EXCEPT ![e] = "QueryError"]
          /\ raised_error' = [raised_error EXCEPT ![e] = attempt_number[e]]
          /\ UNCHANGED <<attempt_number, waits>>
     ELSE /\ waits' = [waits EXCEPT ![e] = Append(@, wait_exponential(attempt_number[e]))]
          /\ attempt_number' = [attempt_number EXCEPT ![e] = @ + 1]
          /\ UNCHANGED <<epc, error, raised_error>>
  /\ UNCHANGED <<tags, config_branch, sensor_state_topics, response, current_response, pending,
                 state_log, config_log, mqttVars>>
  /\ UNCHANGED meterVars

(***************************************************************************)
(* session.get returns resp: query_endpoint returns resp.text,             *)
(* get_reading parses it (ParseError on malformed XML) and                 *)
(* process_send_mqtt routes the reading (KeyError on a key without state   *)
(* topic) and hands one mqtt_publish per topic to asyncio.gather.          *)
(***************************************************************************)
HttpGetReturns(e, resp) ==
  /\ epc[e] = "query"
  /\ response' = [response EXCEPT ![e] = resp]
  /\ IF ~resp.wellformed
     THEN /\ epc' = [epc EXCEPT ![e] = "failed"]
          /\ error' = [error EXCEPT ![e] = "ParseError"]
          /\ UNCHANGED <<current_response, pending>>
     ELSE LET reading == parse_response(resp, tags[e])
          IN /\ current_response' = [current_response EXCEPT ![e] = reading]
             /\ IF RouteRaises(reading, sensor_state_topics[e])
                THEN /\ epc' = [epc EXCEPT ![e] = "failed"]
                     /\ error' = [error EXCEPT ![e] = "KeyError"]
                     /\ UNCHANGED pending
                ELSE LET msgs == mqtt_topic_message(reading, sensor_state_topics[e])
                     IN /\ pending' = [pending EXCEPT ![e] = msgs]
                        /\ epc' = [epc EXCEPT ![e] =
                             IF DOMAIN msgs = {} THEN "done" ELSE "publishing"]
                        /\ UNCHANGED error
  /\ UNCHANGED <<tags, config_branch, sensor_state_topics, attempt_number, waits, http_failures,
                 raised_error, state_log, config_log, mqttVars>>
  /\ UNCHANGED meterVars

(***************************************************************************)
(* One branch of process_send_mqtt's gather: mqtt_publish(topic, payload). *)
(* payload.encode raises AttributeError on None; Mqtt.publish raises when  *)
(* the client does.  The first branch that raises ends run() with its      *)
(* exception while the other branches go on; run() returns when every      *)
(* branch has returned.                                                    *)
(***************************************************************************)
Restrict(f, S) == [x \in S |-> f[x]]

\* An mqtt_publish that retains unless told otherwise.
MqttPublishRetains == TRUE

\* mqtt_publish(self, topic, message, retain=False): process_send_mqtt
\* gives no retain argument.
MqttPublishDefaultRetain == FALSE

PublishBranch(e, topic) ==
  /\ epc[e] \in {"publishing", "failed"}
  /\ topic \in DOMAIN pending[e]
  /\ LET payload == pending[e][topic]
         rest    == Restrict(pending[e], DOMAIN pending[e] \ {topic})
     IN /\ pending' = [pending EXCEPT ![e] = rest]
        /\ IF payload = None
           THEN /\ UNCHANGED <<mqttVars, state_log>>
                /\ epc' = [epc EXCEPT ![e] = "failed"]
                /\ error' = [error EXCEPT ![e] =
                     IF epc[e] = "failed" THEN @ ELSE "AttributeError"]
           ELSE \E connect_ok \in BOOLEAN, publish_ok \in BOOLEAN :
                  \E taken \in BOOLEAN :
                    /\ MqttPublish(connect_ok, publish_ok, taken)
                    /\ state_log' = [state_log EXCEPT ![e] =
                         IF taken
                         THEN Append(@, [topic |-> topic, payload |-> payload,
                                         retain |-> MqttPublishDefaultRetain])
                         ELSE @]
                    /\ epc' = [epc EXCEPT ![e] =
                         IF epc[e] = "failed" \/ ~taken THEN "failed"
                         ELSE IF DOMAIN rest = {} THEN "done" ELSE "publishing"]
                    /\ error' = [error EXCEPT ![e] =
                         IF epc[e] = "publishing" /\ ~taken THEN "MqttError" ELSE @]
  /\ UNCHANGED <<tags, config_branch, sensor_state_topics, attempt_number, waits, http_failures,
                 raised_error, response, current_response, config_log>>
  /\ UNCHANGED meterVars

(***************************************************************************)
(* SpecEndpoint: Endpoint 1 alone, with every schema of Schemas.           *)
(***************************************************************************)
InitEndpoint ==
  /\ \E s \in Schemas : EndpointsInit([e \in EndpointIds |-> IF e = 1 THEN s ELSE <<>>])
  /\ MqttInit
  /\ MeterIdle

NextEndpoint ==
  \/ CreateEndpoint(1)
  \/ EndpointRun(1)
  \/ HttpGetRaises(1)
  \/ \E resp \in Responses : HttpGetReturns(1, resp)
  \/ \E topic \in DOMAIN pending[1] : PublishBranch(1, topic)

SpecEndpoint == InitEndpoint /\ [][NextEndpoint]_vars

(***************************************************************************)
(* Properties of one Endpoint (SpecEndpoint).                              *)
(***************************************************************************)
\* The topics of the state messages of this run().
PublishedTopics(e) == {state_log[e][i].topic : i \in 1..Len(state_log[e])}

\* The query of this run() has returned a body.
QueryReturned(e) == response[e] # NoResponse

\* run() has ended, by return or by exception, and so has every branch.
RunEnded(e) == epc[e] \in {"done", "failed"} /\ DOMAIN pending[e] = {}

\* C4: a query_endpoint call whose session.get failed exactly k times and
\* then returned has k <= 14 and made exactly k + 1 attempts; a call whose
\* session.get failed every time raises after exactly 15 attempts, and what
\* it raises is the failure of the last attempt.
C4_RetryAttempts ==
  \A e \in EndpointIds :
    /\ QueryReturned(e) =>
         /\ http_failures[e] <= 14
         /\ attempt_number[e] = http_failures[e] + 1
    /\ error[e] = "QueryError" =>
         /\ attempt_number[e] = 15
         /\ http_failures[e] = 15
         /\ raised_error[e] = 15
    /\ http_failures[e] >= 15 => error[e] = "QueryError" /\ ~QueryReturned(e)

\* C4 witness: a call that failed 15 times and raised.
C4_Witness ==
  error[1] = "QueryError" /\ http_failures[1] = 15 /\ attempt_number[1] = 15

\* C5: the waits between the attempts of one query never decrease, each is
\* between 1 and 15, and the wait after attempt n is min(2^(n-1), 15),
\* n = 1..14.
C5_RetryWaits ==
  \A e \in EndpointIds :
    /\ Len(waits[e]) <= 14
    /\ epc[e] = "query" => Len(waits[e]) = attempt_number[e] - 1
    /\ \A n \in 1..Len(waits[e]) :
         /\ waits[e][n] = (IF 2^(n - 1) < 15 THEN 2^(n - 1) ELSE 15)
         /\ 1 <= waits[e][n] /\ waits[e][n] <= 15
         /\ n > 1 => waits[e][n - 1] <= waits[e][n]

\* C5 witness: a call that has waited 14 times.
C5_Witness == Len(waits[1]) = 14 /\ waits[1][14] = 15 /\ waits[1][1] = 1

\* C7: the keys of the reading parse_response gives are keys of
\* _sensor_state_topics, whatever the schema the Endpoint was built from
\* and whatever the response.
C7_ParsedKeysHaveTopics ==
  \A e \in EndpointIds :
    (epc[e] \notin {"absent", "create_failed"} /\ response[e].wellformed) =>
      DOMAIN current_response[e] \subseteq DOMAIN sensor_state_topics[e]

\* C8: when the reading holds a key that has no state topic, run() ends
\* without a KeyError, and when nothing else failed every other reading
\* of the cycle is published.
C8_UnroutedKeyDropped ==
  \A e \in EndpointIds :
    (/\ RunEnded(e)
     /\ response[e].wellformed
     /\ \E k \in DOMAIN current_response[e] : k \notin DOMAIN sensor_state_topics[e]) =>
      /\ error[e] # "KeyError"
      /\ error[e] = NoError =>
           PublishedTopics(e) =
             {sensor_state_topics[e][k] :
                k \in DOMAIN current_response[e] \cap DOMAIN sensor_state_topics[e]}

\* The leaf extraction points of a schema: one per scalar leaf, one per
\* named variant of every list item.
RECURSIVE LeafCountItems(_)
LeafCountItems(items) ==
  IF items = <<>> THEN 0
  ELSE Len(Head(items).names) + LeafCountItems(Tail(items))

RECURSIVE LeafCount(_)
LeafCount(tgs) ==
  IF tgs = <<>> THEN 0
  ELSE (IF Head(tgs).islist THEN LeafCountItems(Head(tgs).items) ELSE 1)
       + LeafCount(Tail(tgs))

\* C9: an Endpoint built from a schema has published as many discovery
\* configs as the schema has leaf extraction points.
C9_ConfigPerLeaf ==
  \A e \in EndpointIds :
    epc[e] \notin {"absent", "create_failed"} =>
      Len(config_log[e]) = LeafCount(tags[e])

\* The state topics of the leaves whose element the response holds.
PresentLeafTopics(e) ==
  LET tgs == tags[e]
      el  == response[e].elems
  IN {TopicFor(e, "sensor", tgs[i].k, "state") :
        i \in {j \in 1..Len(tgs) : ~tgs[j].islist /\ el[tgs[j].k] # Absent}}
     \cup UNION {UNION {{TopicFor(e, "sensor", tgs[i].k \o tgs[i].items[j].names[n], "state") :
                           n \in {x \in 1..Len(tgs[i].items[j].names) :
                                    el[tgs[i].items[j].names[x]] # Absent}} :
                        j \in 1..Len(tgs[i].items)} :
                 i \in {j \in 1..Len(tgs) : tgs[j].islist}}

\* The state topics of all the leaves of the schema.
AllLeafTopics(e) ==
  LET tgs == tags[e]
  IN {TopicFor(e, "sensor", tgs[i].k, "state") :
        i \in {j \in 1..Len(tgs) : ~tgs[j].islist}}
     \cup UNION {UNION {{TopicFor(e, "sensor", tgs[i].k \o tgs[i].items[j].names[n], "state") :
                           n \in 1..Len(tgs[i].items[j].names)} :
                        j \in 1..Len(tgs[i].items)} :
                 i \in {j \in 1..Len(tgs) : tgs[j].islist}}

\* C10: when run() has ended on a response that lacks the element of a
\* leaf (and the client took what it was given, and every key had its
\* topic), no error was raised and state was published on exactly the
\* state topics of the leaves whose element the response holds.
C10_MissingElementOmitted ==
  \A e \in EndpointIds :
    (/\ RunEnded(e)
     /\ response[e].wellformed
     /\ PresentLeafTopics(e) # AllLeafTopics(e)
     /\ error[e] \notin {"MqttError", "KeyError"}) =>
      /\ error[e] = NoError
      /\ PublishedTopics(e) = PresentLeafTopics(e)

(***************************************************************************)
(* The Mqtt object, await by await (SpecMqtt): NumCallers tasks call       *)
(* publish, subscribe, connect and disconnect, at most MaxOps calls each.  *)
(***************************************************************************)
\* asyncio.Lock.release: the lock goes to the first waiter, if any.
Release ==
  /\ lock_holder' = IF lock_waiters = <<>> THEN 0 ELSE Head(lock_waiters)
  /\ lock_waiters' = IF lock_waiters = <<>> THEN <<>> ELSE Tail(lock_waiters)

\* A connect() that skips the test of self.connected under the lock.
ConnectedUnderLockSkipped == FALSE

\* Mqtt.connect: "if self.connected: return", inside the lock.
ConnectedUnderLock == connected

\* A disconnect() that skips the test of self.connected under the lock.
NotConnectedUnderLockSkipped == FALSE

\* Mqtt.disconnect: the else branch of "if self.connected:", inside the lock.
NotConnectedUnderLock == ~connected

\* Where a call goes on once its connect() has returned.
AfterConnect(op) ==
  CASE op = "publish" -> "client_publish"
    [] op = "subscribe" -> "client_subscribe"
    [] OTHER -> "idle"

\* A lock that is never found held.
LockedIgnored == FALSE

\* asyncio.Lock.locked(): "async with self._connect_lock" waits when the
\* lock is held.
Locked == lock_holder # 0

\* Task c calls op and runs to its first await.  publish and subscribe
\* call connect() only when self.connected is False; connect() and
\* disconnect() take the lock, or wait for it.
Call(c, op) ==
  /\ cpc[c] = "idle"
  /\ Len(op_log[c]) < MaxOps
  /\ op_log' = [op_log EXCEPT ![c] = Append(@, op)]
  /\ entry_connected' = [entry_connected EXCEPT ![c] = connected]
  /\ cop' = [cop EXCEPT ![c] = op]
  /\ IF op \in {"publish", "subscribe"} /\ connected
     THEN /\ cpc' = [cpc EXCEPT ![c] = AfterConnect(op)]
          /\ UNCHANGED <<lock_holder, lock_waiters>>
     ELSE IF Locked
     THEN /\ cpc' = [cpc EXCEPT ![c] = "lock_wait"]
          /\ lock_waiters' = Append(lock_waiters, c)
          /\ UNCHANGED lock_holder
     ELSE /\ cpc' = [cpc EXCEPT ![c] = "locked"]
          /\ lock_holder' = c
          /\ UNCHANGED lock_waiters
  /\ UNCHANGED <<connected, watchdog_task, watchdog_alive, connect_results, last_ping, endpointVars, meterVars>>

\* The waiting task has been given the lock.
LockGranted(c) ==
  /\ cpc[c] = "lock_wait"
  /\ lock_holder = c
  /\ cpc' = [cpc EXCEPT ![c] = "locked"]
  /\ UNCHANGED <<connected, watchdog_task, watchdog_alive, lock_holder, lock_waiters, cop, op_log, entry_connected,
                 connect_results, last_ping, endpointVars, meterVars>>

\* Mqtt.connect under the lock: return when connected, else await
\* client.connect().
ConnectLocked(c) ==
  /\ cpc[c] = "locked"
  /\ cop[c] # "disconnect"
  /\ IF ConnectedUnderLock
     THEN /\ cpc' = [cpc EXCEPT ![c] = AfterConnect(cop[c])]
          /\ Release
     ELSE /\ cpc' = [cpc EXCEPT ![c] = "client_connect"]
          /\ UNCHANGED <<lock_holder, lock_waiters>>
  /\ UNCHANGED <<connected, watchdog_task, watchdog_alive, cop, op_log, entry_connected, connect_results, last_ping,
                 endpointVars, meterVars>>

\* client.connect() returns (connected = True, start_watchdog) or raises
\* (caught and logged in connect); the lock is released and the call goes on.
ClientConnectEnds(c, ok) ==
  /\ cpc[c] = "client_connect"
  /\ connect_results' = Append(connect_results, IF ok THEN "ok" ELSE "raised")
  /\ connected' = IF ok THEN TRUE ELSE connected
  /\ watchdog_task' = IF ok THEN start_watchdog(watchdog_task) ELSE watchdog_task
  /\ watchdog_alive' = IF ok THEN WatchdogsAfterStart(watchdog_task, watchdog_alive)
                       ELSE watchdog_alive
  /\ Release
  /\ cpc' = [cpc EXCEPT ![c] = AfterConnect(cop[c])]
  /\ UNCHANGED <<cop, op_log, entry_connected, last_ping, endpointVars, meterVars>>

\* client.publish() or client.subscribe() ends, and so does the call.
ClientCallEnds(c) ==
  /\ cpc[c] \in {"client_publish", "client_subscribe"}
  /\ cpc' = [cpc EXCEPT ![c] = "idle"]
  /\ UNCHANGED <<connected, watchdog_task, watchdog_alive, lock_holder, lock_waiters, cop, op_log, entry_connected,
                 connect_results, last_ping, endpointVars, meterVars>>

\* A disconnect() that finds no watchdog task to cancel.
WatchdogTaskSetIgnored == FALSE

\* Mqtt.disconnect: "if self._watchdog_task:".
WatchdogTaskSet == watchdog_task # "None"

\* Mqtt.disconnect under the lock: when connected, cancel the watchdog and
\* await it, then await client.disconnect(); else print and return.
DisconnectLocked(c) ==
  /\ cpc[c] = "locked"
  /\ cop[c] = "disconnect"
  /\ IF NotConnectedUnderLock
     THEN /\ cpc' = [cpc EXCEPT ![c] = "idle"]
          /\ Release
          /\ UNCHANGED watchdog_task
     ELSE IF WatchdogTaskSet
     THEN /\ cpc' = [cpc EXCEPT ![c] = "await_watchdog"]
          /\ watchdog_task' = IF watchdog_task = "running" THEN "cancelling"
                              ELSE watchdog_task
          /\ UNCHANGED <<lock_holder, lock_waiters>>
     ELSE /\ cpc' = [cpc EXCEPT ![c] = "client_disconnect"]
          /\ UNCHANGED <<watchdog_task, lock_holder, lock_waiters>>
  /\ UNCHANGED <<connected, watchdog_alive, cop, op_log, entry_connected, connect_results,
                 last_ping, endpointVars, meterVars>>

\* Mqtt._watchdog: CancelledError at its await; the task logs and ends.
WatchdogCancelled ==
  /\ watchdog_task = "cancelling"
  /\ watchdog_task' = "done"
  /\ watchdog_alive' = watchdog_alive - 1
  /\ UNCHANGED <<connected, callerVars, endpointVars, meterVars>>

\* A watchdog that a failed ping ends.
WatchdogAfterPingFailStops(ok) == IF ok THEN "running" ELSE "done"

\* Mqtt._watchdog: "except Exception" around the ping logs and the
\* "while True" loop goes on, whether client.ping() returned or raised.
WatchdogAfterPing(ok) == "running"

\* Mqtt._watchdog: the sleep of 30 ends and client.ping() returns or
\* raises; either way the loop goes on.
WatchdogPing(ok) ==
  /\ watchdog_task = "running"
  /\ last_ping' = [slept |-> WatchdogSleep, result |-> IF ok THEN "ok" ELSE "failed"]
  /\ watchdog_task' = WatchdogAfterPing(ok)
  /\ watchdog_alive' = IF watchdog_task' = "running" THEN watchdog_alive
                       ELSE watchdog_alive - 1
  /\ UNCHANGED <<connected, lock_holder, lock_waiters, cpc, cop,
                 op_log, entry_connected, connect_results, endpointVars, meterVars>>

\* A disconnect() that does not wait for the watchdog task.
WatchdogEndedNotAwaited == TRUE

\* Mqtt.disconnect: "await self._watchdog_task" waits until the task has
\* ended.
WatchdogEnded == watchdog_task = "done"

\* "await self._watchdog_task" returns: the watchdog has ended.
WatchdogAwaited(c) ==
  /\ cpc[c] = "await_watchdog"
  /\ WatchdogEnded
  /\ cpc' = [cpc EXCEPT ![c] = "client_disconnect"]
  /\ UNCHANGED <<connected, watchdog_task, watchdog_alive, lock_holder, lock_waiters, cop, op_log, entry_connected,
                 connect_results, last_ping, endpointVars, meterVars>>

\* client.disconnect() returns (connected = False) or raises (out of
\* disconnect()); the lock is released.
ClientDisconnectEnds(c, ok) ==
  /\ cpc[c] = "client_disconnect"
  /\ connected' = IF ok THEN FALSE ELSE connected
  /\ Release
  /\ cpc' = [cpc EXCEPT ![c] = "idle"]
  /\ UNCHANGED <<watchdog_task, watchdog_alive, cop, op_log, entry_connected, connect_results, last_ping, endpointVars, meterVars>>

InitMqtt ==
  /\ EndpointsInit([e \in EndpointIds |-> <<>>])
  /\ MqttInit
  /\ MeterIdle

NextMqtt ==
  \/ \E c \in Callers, op \in {"publish", "subscribe", "connect", "disconnect"} :
       Call(c, op)
  \/ \E c \in Callers : LockGranted(c)
  \/ \E c \in Callers : ConnectLocked(c)
  \/ \E c \in Callers, ok \in BOOLEAN : ClientConnectEnds(c, ok)
  \/ \E c \in Callers : ClientCallEnds(c)
  \/ \E c \in Callers : DisconnectLocked(c)
  \/ WatchdogCancelled
  \/ \E ok \in BOOLEAN : WatchdogPing(ok)
  \/ \E c \in Callers : WatchdogAwaited(c)
  \/ \E c \in Callers, ok \in BOOLEAN : ClientDisconnectEnds(c, ok)

SpecMqtt == InitMqtt /\ [][NextMqtt]_vars

\* Every task has called publish once and nothing else, and every call
\* has ended: the first publish calls, begun while no connection existed.
FirstPublishesEnded ==
  \A c \in Callers : op_log[c] = <<"publish">> /\ cpc[c] = "idle"

\* C3: after two (or all NumCallers) first publish calls on a client that
\* was not connected, client.connect has been called exactly once.
C3_ExactlyOneConnect ==
  FirstPublishesEnded => Len(connect_results) = 1

\* C3 as amended: no two calls of client.connect overlap; after the first
\* publish calls exactly one call was made if it succeeded, and each call
\* that raised was followed by the next caller's own call.
C3_OneConnectAtATime ==
  /\ Cardinality({c \in Callers : cpc[c] = "client_connect"}) <= 1
  /\ FirstPublishesEnded =>
       /\ Len(connect_results) >= 1
       /\ \A i \in 1..(Len(connect_results) - 1) : connect_results[i] = "raised"
       /\ connect_results[Len(connect_results)] = "raised" =>
            Len(connect_results) = NumCallers

\* C3 witness: both publish calls found no connection; the second waited
\* for the lock, holds it now, and the first one's client.connect has
\* succeeded.
C3_Witness ==
  /\ \A c \in Callers : op_log[c] = <<"publish">>
  /\ connect_results = <<"ok">>
  /\ \E c \in Callers : cpc[c] = "locked"

(***************************************************************************)
(* XcelMeter.run() over the Endpoints of self.endpoints, as the task main  *)
(* created in its TaskGroup (Spec).  Every Endpoint has been built by      *)
(* XcelEndpoint.create_endpoint from the schema {lFDI: details}.  The      *)
(* meter answers every GET of an Endpoint's url or none of them            *)
(* (http_down); SpecEndpoint covers a query that fails k times first.      *)
(***************************************************************************)
MeterSchema == <<ScalarEntry("lFDI")>>

\* The responses that differ for MeterSchema.
MeterResponses ==
  {r \in Responses : r.elems["Voltage"] = Absent /\ r.elems["Current"] = Absent}

\* The tasks of Endpoint.run() that have ended, and their branches.
Finished(e) == epc[e] \in {"ready", "done", "failed", "cancelled"}
               /\ DOMAIN pending[e] = {}

\* CancelledError reaches every task of S that has not ended.
CancelTasks(S) ==
  /\ epc' = [e \in EndpointIds |->
               IF e \in S /\ epc[e] \in {"query", "publishing"} THEN "cancelled"
               ELSE epc[e]]
  /\ pending' = [e \in EndpointIds |-> IF e \in S THEN EmptyDict ELSE pending[e]]

\* "await asyncio.sleep(self.POLLING_RATE)" ends and gather starts
\* obj.run() of every Endpoint.
MeterPoll ==
  /\ process = "running"
  /\ mpc = "sleep"
  /\ mpc' = "gather"
  /\ RunStart(EndpointIds)
  /\ UNCHANGED <<mqttVars, cancelled, process, http_down, mainVars>>

\* Every obj.run() has returned: gather returns and the loop goes round.
MeterGatherReturns ==
  /\ process = "running"
  /\ mpc = "gather"
  /\ \A e \in EndpointIds : epc[e] = "done"
  /\ mpc' = "sleep"
  /\ UNCHANGED <<endpointVars, mqttVars, cancelled, process, http_down, mainVars>>

\* Some obj.run() has raised: gather (return_exceptions=False) raises it
\* into run() at once, the other tasks go on; no handler of run() takes
\* it (only CancelledError is caught), so the task of run() ends with it.
MeterGatherRaises ==
  /\ process = "running"
  /\ mpc = "gather"
  /\ \E e \in EndpointIds : epc[e] = "failed"
  /\ mpc' = "raised"
  /\ UNCHANGED <<endpointVars, mqttVars, cancelled, process, http_down, mainVars>>

\* main: the task of run() ended with an exception, the TaskGroup raises
\* it out of main ("except* TerminateTaskGroup" does not match), and
\* asyncio.run cancels the tasks that are left and returns.
ProcessExit ==
  /\ process = "running"
  /\ mpc = "raised"
  /\ process' = "exited"
  /\ CancelTasks(EndpointIds)
  /\ UNCHANGED <<tags, config_branch, sensor_state_topics, attempt_number, waits, http_failures,
                 raised_error, response, current_response, error, state_log,
                 config_log, mqttVars, mpc, cancelled, http_down,
                 mainVars>>

\* The task of run() is cancelled from outside: CancelledError is raised
\* at its await (the sleep, or the gather, which cancels its children);
\* the handler awaits self.mqtt.disconnect().
MeterCancel ==
  /\ process = "running"
  /\ mpc \in {"sleep", "gather"}
  /\ cancelled' = TRUE
  /\ mpc' = "disconnecting"
  /\ CancelTasks(EndpointIds)
  /\ UNCHANGED <<tags, config_branch, sensor_state_topics, attempt_number, waits, http_failures,
                 raised_error, response, current_response, error, state_log,
                 config_log, mqttVars, process, http_down, mainVars>>

\* The handler's "await self.mqtt.disconnect()" returns or raises; run()
\* ends.
MeterDisconnect(ok) ==
  /\ process = "running"
  /\ mpc = "disconnecting"
  /\ mpc' = "terminated"
  /\ MqttDisconnect(ok)
  /\ UNCHANGED <<endpointVars, cancelled, process, http_down, mainVars>>

\* run() has been started on a meter whose self.endpoints holds the
\* Endpoints create_endpoint returned; their config publishes made the
\* connection and started the watchdog.
Init ==
  /\ tags = [e \in EndpointIds |-> MeterSchema]
  /\ config_branch = [e \in EndpointIds |-> <<>>]
  /\ sensor_state_topics = [e \in EndpointIds |-> SensorStateTopics(e, MeterSchema)]
  /\ config_log = [e \in EndpointIds |-> ConfigMessages(e, MeterSchema)]
  /\ epc = [e \in EndpointIds |-> "ready"]
  /\ attempt_number = [e \in EndpointIds |-> 0]
  /\ waits = [e \in EndpointIds |-> <<>>]
  /\ http_failures = [e \in EndpointIds |-> 0]
  /\ raised_error = [e \in EndpointIds |-> 0]
  /\ response = [e \in EndpointIds |-> NoResponse]
  /\ current_response = [e \in EndpointIds |-> EmptyDict]
  /\ pending = [e \in EndpointIds |-> EmptyDict]
  /\ error = [e \in EndpointIds |-> NoError]
  /\ state_log = [e \in EndpointIds |-> <<>>]
  /\ connected = TRUE
  /\ watchdog_task = "running"
  /\ watchdog_alive = 1
  /\ lock_holder = 0
  /\ lock_waiters = <<>>
  /\ cpc = [c \in Callers |-> "idle"]
  /\ cop = [c \in Callers |-> "none"]
  /\ op_log = [c \in Callers |-> <<>>]
  /\ entry_connected = [c \in Callers |-> FALSE]
  /\ connect_results = <<>>
  /\ last_ping = NoPing
  /\ mpc = "sleep"
  /\ cancelled = FALSE
  /\ process = "running"
  /\ http_down \in [EndpointIds -> BOOLEAN]
  /\ MainIdle
  /\ TopicIdle

Next ==
  \/ MeterPoll
  \/ MeterGatherReturns
  \/ MeterGatherRaises
  \/ ProcessExit
  \/ MeterCancel
  \/ \E ok \in BOOLEAN : MeterDisconnect(ok)
  \/ \E e \in EndpointIds : process = "running" /\ http_down[e] /\ HttpGetRaises(e)
  \/ \E e \in EndpointIds, resp \in MeterResponses :
       process = "running" /\ ~http_down[e] /\ HttpGetReturns(e, resp)
  \/ \E e \in EndpointIds : \E topic \in DOMAIN pending[e] :
       process = "running" /\ PublishBranch(e, topic)

Spec == Init /\ [][Next]_vars

\* Endpoint f's query failed on all 15 attempts in this cycle and the
\* queries of all its siblings returned a reading the client then took
\* or would take; the cycle is over: every task of it has ended.
OneFailsOthersHealthy(f) ==
  /\ error[f] = "QueryError" /\ http_failures[f] = 15
  /\ \A e \in EndpointIds \ {f} :
       /\ QueryReturned(e)
       /\ response[e].wellformed
       /\ response[e].elems["lFDI"] \in Texts
       /\ error[e] = NoError
  /\ \A e \in EndpointIds : Finished(e)

\* C1: in a poll cycle in which one Endpoint's query fails all 15
\* attempts and the others succeed, the others' state readings are
\* published: the failure cancels no sibling run().
C1_HealthySiblingsPublish ==
  \A f \in EndpointIds :
    (~cancelled /\ OneFailsOthersHealthy(f)) =>
      \A e \in EndpointIds \ {f} :
        /\ epc[e] # "cancelled"
        /\ PublishedTopics(e) = PresentLeafTopics(e)

\* C2: the task of XcelMeter.run() ends only when it is cancelled from
\* outside; no failure of an Endpoint.run() ends it.
C2_LoopEndsOnlyOnCancel ==
  mpc \in {"raised", "disconnecting", "terminated"} => cancelled

(***************************************************************************)
(* main(): inside "async with TaskGroup() as group", for every entry of    *)
(* METERS in turn, an XcelMeter is built, "await meter.setup()" is run     *)
(* under its retry policy and, when initalized, meter.run() is started as  *)
(* a task of the group (SpecMain).  The Endpoints file is the same for     *)
(* every meter and holds endpoints_file endpoints.                         *)
(***************************************************************************)
\* The attempt of setup() of the meter at hand raised err; hw: it was
\* get_hardware_details or the read of its dict that raised.  tenacity
\* re-raises err when stop_after_attempt says so, else sleeps and calls
\* setup() again from its first line.
\* A setup() that begins with send_mqtt_config.
SetupEntrySendsConfig == "send_mqtt_config"

\* XcelMeter.setup: its first await is get_hardware_details; tenacity
\* calls setup() anew for every attempt.
SetupEntry == "get_hardware_details"

SetupAttemptRaises(err, hw) ==
  /\ hw_failures' = [hw_failures EXCEPT ![meter] = @ + (IF hw THEN 1 ELSE 0)]
  /\ UNCHANGED hw_identified
  /\ IF stop_after_attempt(setup_attempt[meter])
     THEN /\ setup_pc' = "raised"
          /\ setup_error' = [setup_error EXCEPT ![meter] = err]
          /\ UNCHANGED <<setup_attempt, setup_waits>>
     ELSE /\ setup_pc' = SetupEntry
          /\ setup_waits' = [setup_waits EXCEPT
               ![meter] = Append(@, wait_exponential(setup_attempt[meter]))]
          /\ setup_attempt' = [setup_attempt EXCEPT ![meter] = @ + 1]
          /\ UNCHANGED setup_error
  /\ UNCHANGED <<meter, initalized, run_task, polls, endpoints_file, device_config_log, topicVars>>

\* "details_dict = await self.get_hardware_details(...)" and the three
\* reads of details_dict: the GET or ET.fromstring raises ("raises"), an
\* element of lFDI, swVer, mfID is not in the response so that the read
\* raises KeyError ("missing"), or all three are there ("ok") and
\* _mfid, _lfdi, _swVer and device_info are assigned.
GetHardwareDetails(outcome) ==
  /\ process = "running"
  /\ setup_pc = "get_hardware_details"
  /\ CASE outcome = "raises" -> SetupAttemptRaises("HardwareError", TRUE)
       [] outcome = "missing" -> SetupAttemptRaises("KeyError", TRUE)
       [] OTHER -> /\ setup_pc' = "send_mqtt_config"
                   /\ hw_identified' = [hw_identified EXCEPT ![meter] = @ + 1]
                   /\ UNCHANGED <<meter, setup_attempt, setup_waits, hw_failures,
                                  setup_error, initalized, run_task, polls,
                                  endpoints_file, device_config_log, topicVars>>
  /\ UNCHANGED <<endpointVars, mqttVars, mpc, cancelled, process, http_down>>

\* Mqtt.publish(topic, payload, qos=0, retain=False): the default of retain.
PublishDefaultRetain == FALSE

\* XcelMeter.send_mqtt_config: the discovery message of the device,
\* "await self.mqtt.publish(state_topic, config_json.encode(...))".
DeviceConfig(m) ==
  [meter  |-> m,
   topic  |-> "homeassistant/device/energy/" \o Str(LowerAll(ReplaceSpaces(meter_name))),
   retain |-> PublishDefaultRetain]

\* "await self.send_mqtt_config()": the device's discovery payload is
\* published; an exception of client.publish ends the attempt.
SendMqttConfig(connect_ok, publish_ok) ==
  /\ process = "running"
  /\ setup_pc = "send_mqtt_config"
  /\ \E taken \in BOOLEAN :
       /\ MqttPublish(connect_ok, publish_ok, taken)
       /\ IF taken
          THEN /\ setup_pc' = "create_endpoints"
               /\ device_config_log' = device_config_log \cup {DeviceConfig(meter)}
               /\ UNCHANGED <<meter, setup_attempt, setup_waits, hw_failures, hw_identified,
                              setup_error, initalized, run_task, polls,
                              endpoints_file, topicVars>>
          ELSE SetupAttemptRaises("MqttError", FALSE)
  /\ UNCHANGED <<endpointVars, mpc, cancelled, process, http_down>>

\* load_endpoints and create_endpoints: for every endpoint of the file
\* the arguments of XcelEndpoint.create_endpoint are evaluated, among them
\* self.mqtt_topic_prefix, and it is called with eight arguments where it
\* takes nine, so the first call raises TypeError; with no endpoint in
\* the file gather returns [].  Then initalized = True, setup() returns,
\* main starts meter.run() in the group and goes to the next entry.
CreateEndpoints ==
  /\ process = "running"
  /\ setup_pc = "create_endpoints"
  /\ IF endpoints_file > 0
     THEN SetupAttemptRaises(
            IF MeterTopicPrefix(meter_prefix).outcome = "returned" THEN "TypeError"
            ELSE MeterTopicPrefix(meter_prefix).outcome, FALSE)
     ELSE /\ initalized' = [initalized EXCEPT ![meter] = TRUE]
          /\ run_task' = [run_task EXCEPT ![meter] = "sleep"]
          /\ meter' = meter + 1
          /\ setup_pc' = IF meter < NumMeters THEN SetupEntry
                         ELSE "join"
          /\ setup_attempt' = [setup_attempt EXCEPT
               ![meter + 1] = IF meter < NumMeters THEN 1 ELSE @]
          /\ UNCHANGED <<setup_waits, hw_failures, hw_identified, setup_error, polls,
                         endpoints_file, device_config_log, topicVars>>
  /\ UNCHANGED <<endpointVars, mqttVars, mpc, cancelled, process, http_down>>

\* meter.run() of a meter with no Endpoints: the sleep ends, gather of
\* nothing returns, the loop sleeps again.
MeterRunPoll(m) ==
  /\ process = "running"
  /\ run_task[m] = "sleep"
  /\ polls[m] < MaxPolls
  /\ polls' = [polls EXCEPT ![m] = @ + 1]
  /\ UNCHANGED <<endpointVars, mqttVars, mpc, cancelled, process, http_down,
                 meter, setup_pc, setup_attempt, setup_waits, hw_failures, hw_identified,
                 setup_error, initalized, run_task, endpoints_file, device_config_log, topicVars>>

\* setup() raised inside the "async with" body: TaskGroup.__aexit__
\* cancels every task of the group that has not ended; CancelledError is
\* raised at the sleep of each run(), whose handler awaits
\* self.mqtt.disconnect().
TaskGroupAborts ==
  /\ process = "running"
  /\ setup_pc = "raised"
  /\ setup_pc' = "aborting"
  /\ run_task' = [m \in Meters |->
                    IF run_task[m] = "sleep" THEN "disconnecting" ELSE run_task[m]]
  /\ UNCHANGED <<endpointVars, mqttVars, mpc, cancelled, process, http_down,
                 meter, setup_attempt, setup_waits, hw_failures, hw_identified, setup_error,
                 initalized, polls, endpoints_file, device_config_log, topicVars>>

\* asyncio.run cancels the task of main() (an interrupt) while it waits in
\* TaskGroup.__aexit__ for the run()s: the group cancels every task of
\* it together; CancelledError is raised at the sleep of each run(),
\* whose handler awaits self.mqtt.disconnect() of the shared Mqtt object.
MainCancelled ==
  /\ process = "running"
  /\ setup_pc = "join"
  /\ cancelled' = TRUE
  /\ setup_pc' = "aborting"
  /\ run_task' = [m \in Meters |->
                    IF run_task[m] = "sleep" THEN "disconnecting" ELSE run_task[m]]
  /\ UNCHANGED <<endpointVars, mqttVars, mpc, process, http_down,
                 meter, setup_attempt, setup_waits, hw_failures, hw_identified, setup_error,
                 initalized, polls, endpoints_file, device_config_log, topicVars>>

\* The handler's "await self.mqtt.disconnect()" of a cancelled run()
\* returns or raises; the task ends.
MeterRunDisconnect(m, ok) ==
  /\ process = "running"
  /\ run_task[m] = "disconnecting"
  /\ run_task' = [run_task EXCEPT ![m] = "done"]
  /\ MqttDisconnect(ok)
  /\ UNCHANGED <<endpointVars, mpc, cancelled, process, http_down,
                 meter, setup_pc, setup_attempt, setup_waits, hw_failures, hw_identified,
                 setup_error, initalized, polls, endpoints_file, device_config_log, topicVars>>

\* Every task of the group has ended: __aexit__ raises the exception of
\* setup() in an ExceptionGroup (or CancelledError when main() was
\* cancelled), "except* TerminateTaskGroup" does not match it, main() and
\* asyncio.run raise: the process ends.
MainRaises ==
  /\ process = "running"
  /\ setup_pc = "aborting"
  /\ \A m \in Meters : run_task[m] \in {"none", "done"}
  /\ process' = "exited"
  /\ UNCHANGED <<endpointVars, mqttVars, mpc, cancelled, http_down, mainVars>>

\* MQTT_TOPIC_PREFIX is not set (main passes None, __init__ keeps ""), or
\* it is set.
MainPrefixes == {<<>>, MqttPrefix}

InitMain ==
  /\ EndpointsInit([e \in EndpointIds |-> <<>>])
  /\ MqttInit
  /\ mpc = "none"
  /\ cancelled = FALSE
  /\ process = "running"
  /\ http_down = [e \in EndpointIds |-> FALSE]
  /\ meter = 1
  /\ setup_pc = SetupEntry
  /\ setup_attempt = [m \in Meters |-> IF m = 1 THEN 1 ELSE 0]
  /\ setup_waits = [m \in Meters |-> <<>>]
  /\ hw_failures = [m \in Meters |-> 0]
  /\ hw_identified = [m \in Meters |-> 0]
  /\ setup_error = [m \in Meters |-> NoError]
  /\ initalized = [m \in Meters |-> FALSE]
  /\ run_task = [m \in Meters |-> "none"]
  /\ polls = [m \in Meters |-> 0]
  /\ endpoints_file \in 0..MaxFileEndpoints
  /\ device_config_log = {}
  /\ meter_prefix \in MainPrefixes
  /\ meter_name = MeterName
  /\ meter_topic_prefix = NotEvaluated
  /\ endpoint_topic_prefix = NotEvaluated
  /\ state_topics = {}
  /\ topic_table = {}

NextMain ==
  \/ \E outcome \in {"raises", "missing", "ok"} : GetHardwareDetails(outcome)
  \/ \E connect_ok, publish_ok \in BOOLEAN : SendMqttConfig(connect_ok, publish_ok)
  \/ CreateEndpoints
  \/ \E m \in Meters : MeterRunPoll(m)
  \/ TaskGroupAborts
  \/ MainCancelled
  \/ \E m \in Meters, ok \in BOOLEAN : MeterRunDisconnect(m, ok)
  \/ MainRaises

SpecMain == InitMain /\ [][NextMain]_vars

\* Hardware identification of meter m failed on every attempt of the
\* retry budget of its setup().
HardwareIdentFailed(m) ==
  /\ setup_error[m] \in {"HardwareError", "KeyError"}
  /\ hw_failures[m] = StopAfterAttempt

\* C6: when hardware identification of one meter fails on every attempt
\* of the retry budget, only that meter's setup is given up: main() goes
\* on to the other meters, no run() of another meter is cancelled, and
\* the process does not exit.
C6_SetupFailureIsLocal ==
  \A m \in Meters :
    HardwareIdentFailed(m) =>
      /\ process = "running"
      /\ setup_pc \notin {"aborting"}
      /\ \A n \in Meters \ {m} : run_task[n] \notin {"disconnecting", "done"}

(***************************************************************************)
(* Further properties of XcelMeter.run() (Spec).                           *)
(***************************************************************************)
\* C11: once a cancelled run() has ended, its Mqtt.disconnect() has ended
\* before it and the connection is released: connected is False.
C11_CancelReleasesConnection ==
  (cancelled /\ mpc = "terminated") => ~connected

(***************************************************************************)
(* Further properties of the Mqtt object (SpecMqtt).                       *)
(***************************************************************************)
\* The client's connect has succeeded once, the watchdog's last ping has
\* failed since, and the Mqtt object still says it is connected.
ConnectionLostUnseen ==
  /\ connected
  /\ last_ping.result = "failed"
  /\ Cardinality({i \in DOMAIN connect_results : connect_results[i] = "ok"}) = 1

\* C12: a publish called after the connection was lost (the watchdog's
\* ping failed while connected is True) goes through connect() and calls
\* the client's connect before it calls the client's publish.
C12_PublishReconnects ==
  [][\A c \in Callers :
       (/\ ConnectionLostUnseen
        /\ cpc[c] = "idle"
        /\ op_log'[c] = Append(op_log[c], "publish"))
       => cpc'[c] \in {"locked", "lock_wait"}]_vars

\* C13: every ping follows a sleep of 30; a ping that fails leaves the
\* watchdog running, leaves connected as it is and makes no task call the
\* client's connect; the watchdog leaves its loop only by being cancelled.
C13_WatchdogKeepsPinging ==
  [][/\ last_ping'.result # "none" => last_ping'.slept = 30
     /\ (last_ping' # last_ping /\ last_ping'.result = "failed") =>
          /\ watchdog_task' = "running"
          /\ connected' = connected
          /\ connect_results' = connect_results
          /\ cpc' = cpc
     /\ (watchdog_task = "running" /\ watchdog_task' # "running") =>
          watchdog_task' = "cancelling"]_vars

\* C13 witness: the connection is up, the last ping has failed and the
\* watchdog is still in its loop.
C13_Witness ==
  connected /\ last_ping.result = "failed" /\ watchdog_task = "running"

\* C14: a connect() called while connected is True never calls the
\* client's connect, and a disconnect() called while connected is False
\* never cancels the watchdog or calls the client's disconnect.
C14_NoOpByStateAtCall ==
  \A c \in Callers :
    /\ (cop[c] = "connect" /\ entry_connected[c]) => cpc[c] # "client_connect"
    /\ (cop[c] = "disconnect" /\ ~entry_connected[c]) =>
         cpc[c] \notin {"await_watchdog", "client_disconnect"}

\* C14 as amended: a connect() that finds connected True once it holds the
\* lock, and a disconnect() that finds connected False once it holds the
\* lock, return at once: no call of the client, the lock released,
\* connected, the watchdog and the record of the client's connects as they
\* were.
C14_NoOpByStateUnderLock ==
  [][\A c \in Callers :
       (/\ cpc[c] = "locked" /\ cpc'[c] # "locked"
        /\ \/ cop[c] = "connect" /\ connected
           \/ cop[c] = "disconnect" /\ ~connected)
       => /\ cpc'[c] = "idle"
          /\ lock_holder' # c
          /\ connected' = connected
          /\ watchdog_task' = watchdog_task
          /\ connect_results' = connect_results]_vars

\* C14 witness: task 1 called disconnect() before any connection and
\* task 2 called connect() after its own publish had connected; both calls
\* have returned, one call of the client's connect was made and the
\* watchdog it started still runs.
C14_Witness ==
  /\ op_log[1] = <<"disconnect">> /\ ~entry_connected[1] /\ cpc[1] = "idle"
  /\ op_log[2] = <<"publish", "connect">> /\ entry_connected[2] /\ cpc[2] = "idle"
  /\ connect_results = <<"ok">>
  /\ connected /\ watchdog_task = "running"

(***************************************************************************)
(* Further properties of one Endpoint (SpecEndpoint).                      *)
(***************************************************************************)
\* C15: the body query_endpoint returns as the result of a query is the
\* body of a response with a 2xx status; a response with another status
\* counts as a failed attempt, like an exception of session.get.
C15_Non2xxIsRetried ==
  \A e \in EndpointIds : QueryReturned(e) => Is2xx(response[e].status)

\* The response of Endpoint f in this cycle was malformed XML while the
\* queries of all its siblings returned a reading the client took or
\* would take; the cycle is over: every task of it has ended.
ParseFailsOthersHealthy(f) ==
  /\ QueryReturned(f) /\ ~response[f].wellformed
  /\ \A e \in EndpointIds \ {f} :
       /\ QueryReturned(e)
       /\ response[e].wellformed
       /\ response[e].elems["lFDI"] \in Texts
       /\ error[e] = NoError
  /\ \A e \in EndpointIds : Finished(e)

\* What C16 says of the Endpoint whose response was malformed: run() ended
\* with the parse error after the one query that returned, and published
\* no state.
ParseErrorNotRetried(f) ==
  /\ epc[f] = "failed" /\ error[f] = "ParseError"
  /\ attempt_number[f] = http_failures[f] + 1
  /\ state_log[f] = <<>>

\* C16: in a poll cycle in which one Endpoint's response is malformed XML,
\* that Endpoint makes no further query and publishes no state, and the
\* other Endpoints of the cycle publish their readings.
C16_ParseErrorIsLocal ==
  \A f \in EndpointIds :
    (~cancelled /\ ParseFailsOthersHealthy(f)) =>
      /\ ParseErrorNotRetried(f)
      /\ \A e \in EndpointIds \ {f} :
           /\ epc[e] # "cancelled"
           /\ PublishedTopics(e) = PresentLeafTopics(e)

(***************************************************************************)
(* Properties of main() and XcelMeter.setup() (SpecMain).                  *)
(***************************************************************************)
\* C17: every discovery message the client took, the device's and every
\* sensor's, was published with retain = true.
C17_DiscoveryRetained ==
  /\ \A m \in device_config_log : m.retain
  /\ \A e \in EndpointIds : \A i \in 1..Len(config_log[e]) : config_log[e][i].retain

(***************************************************************************)
(* The state messages of one Endpoint (SpecEndpoint).                      *)
(***************************************************************************)
\* The (state topic, element name) pairs of the leaves of a schema.
LeafElements(e) ==
  LET tgs == tags[e]
  IN {<<TopicFor(e, "sensor", tgs[i].k, "state"), tgs[i].k>> :
        i \in {j \in 1..Len(tgs) : ~tgs[j].islist}}
     \cup UNION {UNION {{<<TopicFor(e, "sensor",
                                    tgs[i].k \o tgs[i].items[j].names[n], "state"),
                           tgs[i].items[j].names[n]>> :
                           n \in 1..Len(tgs[i].items[j].names)} :
                        j \in 1..Len(tgs[i].items)} :
                 i \in {j \in 1..Len(tgs) : tgs[j].islist}}

\* C18: among the state messages of one run() no two are on the same
\* topic; each is on the state topic of a leaf and carries the text the
\* response holds for the element of that leaf; each has retain = false.
C18_OneRawStatePerLeaf ==
  \A e \in EndpointIds :
    /\ \A i, j \in 1..Len(state_log[e]) :
         state_log[e][i].topic = state_log[e][j].topic => i = j
    /\ \A i \in 1..Len(state_log[e]) :
         /\ ~state_log[e][i].retain
         /\ \E l \in LeafElements(e) :
              /\ l[1] = state_log[e][i].topic
              /\ state_log[e][i].payload = response[e].elems[l[2]]

\* C18 witness: a run() that has published two state messages, for the
\* two leaves of one variant list.
C18_Witness ==
  /\ epc[1] = "done"
  /\ Len(state_log[1]) = 2
  /\ tags[1] = <<ListEntry("Reading", <<[isdict |-> TRUE, names |-> <<"Voltage">>],
                                        [isdict |-> TRUE, names |-> <<"Current">>]>>)>>

(***************************************************************************)
(* The topic properties as functions of the configuration (SpecTopic): a   *)
(* meter configured with a prefix of Prefixes and a name of MeterNames,    *)
(* and an Endpoint built with that prefix and that name from TopicSchema.  *)
(***************************************************************************)
\* The prefixes MQTT_TOPIC_PREFIX is configured with: empty, a lone
\* separator, and a word with no, one and two trailing separators.
Prefixes ==
  {<<>>, <<"/">>, <<"homeassistant">>, <<"homeassistant", "/">>,
   <<"homeassistant", "/", "/">>}

MeterNames == {MeterName, <<"meter", " ", "B">>}

\* tags: {lFDI: details, Reading: [{Voltage: details}, {Current: details}]}
TopicSchema ==
  <<ScalarEntry("lFDI"),
    ListEntry("Reading", <<[isdict |-> TRUE, names |-> <<"Voltage">>],
                           [isdict |-> TRUE, names |-> <<"Current">>]>>)>>

\* self.mqtt_topic_prefix of the XcelMeter is evaluated.
EvalMeterTopicPrefix ==
  /\ meter_topic_prefix = NotEvaluated
  /\ meter_topic_prefix' = MeterTopicPrefix(meter_prefix)
  /\ UNCHANGED <<endpointVars, mqttVars, mpc, cancelled, process, http_down,
                 meter, setup_pc, setup_attempt, setup_waits, hw_failures, hw_identified,
                 setup_error, initalized, run_task, polls, endpoints_file,
                 device_config_log, meter_prefix, meter_name,
                 endpoint_topic_prefix, state_topics, topic_table>>

\* self.mqtt_topic_prefix of the XcelEndpoint is evaluated.
EvalEndpointTopicPrefix ==
  /\ endpoint_topic_prefix = NotEvaluated
  /\ endpoint_topic_prefix' = Returned(EndpointTopicPrefix(meter_prefix))
  /\ UNCHANGED <<endpointVars, mqttVars, mpc, cancelled, process, http_down,
                 meter, setup_pc, setup_attempt, setup_waits, hw_failures, hw_identified,
                 setup_error, initalized, run_task, polls, endpoints_file,
                 device_config_log, meter_prefix, meter_name,
                 meter_topic_prefix, state_topics, topic_table>>

\* create_config(sensor_name, details) records the state topic of the
\* i-th sensor name of TopicSchema.
CreateConfig(i) ==
  /\ LET topic == Topic(meter_prefix, Details.entity_type, meter_name,
                        EndpointName(1), ConfigNames(TopicSchema)[i], "state")
     IN /\ topic \notin state_topics
        /\ state_topics' = state_topics \cup {topic}
  /\ UNCHANGED <<endpointVars, mqttVars, mpc, cancelled, process, http_down,
                 meter, setup_pc, setup_attempt, setup_waits, hw_failures, hw_identified,
                 setup_error, initalized, run_task, polls, endpoints_file,
                 device_config_log, meter_prefix, meter_name,
                 meter_topic_prefix, endpoint_topic_prefix, topic_table>>

InitTopic ==
  /\ EndpointsInit([e \in EndpointIds |-> <<>>])
  /\ MqttInit
  /\ RunIdle
  /\ MainIdle
  /\ meter_prefix \in Prefixes
  /\ meter_name \in MeterNames
  /\ meter_topic_prefix = NotEvaluated
  /\ endpoint_topic_prefix = NotEvaluated
  /\ state_topics = {}
  /\ topic_table = {}

\* What decides a state topic besides the prefix: the ldfi, meter_name and
\* name the Endpoint is built with, the key k of the tags and the name
\* popped from a list item ("" for a scalar key, whose sensor name is k),
\* and the entity_type of the details.
TopicInput(ldfi, mname, name, k, variant, entity_type) ==
  [ldfi |-> ldfi, mname |-> mname, name |-> name, k |-> k,
   variant |-> variant, entity_type |-> entity_type]

TopicInputs ==
  {TopicInput("123", <<"Meter", " ", "A">>, EndpointName(1), "Reading", "Voltage", "sensor"),
   TopicInput("456", <<"Meter", " ", "A">>, EndpointName(1), "Reading", "Voltage", "sensor"),
   TopicInput("123", <<"Meter", "_", "A">>, EndpointName(1), "Reading", "Voltage", "sensor"),
   TopicInput("123", <<"Meter", " ", "A">>, <<"Instantaneous", "_", "Demand">>,
              "Reading", "Voltage", "sensor"),
   TopicInput("123", <<"Meter", " ", "A">>, EndpointName(1), "ReadingVolt", "age", "sensor"),
   TopicInput("123", <<"Meter", " ", "A">>, EndpointName(1), "ReadingVoltage", "", "sensor"),
   TopicInput("123", <<"Meter", " ", "A">>, EndpointName(1), "Reading", "Current", "sensor"),
   TopicInput("123", <<"Meter", " ", "A">>, EndpointName(1), "Reading", "Voltage",
              "binary_sensor")}

\* process_list_item: sensor_name = f'{k}{name}'; process_obj: sensor_name = k.
SensorName(inp) == inp.k \o inp.variant

\* create_config of an Endpoint built with inp.ldfi, inp.mname and inp.name,
\* called for the sensor name and entity_type of inp: the state topic it
\* composes is recorded with its arguments.
CreateConfigFor(inp) ==
  /\ \A r \in topic_table : r.input # inp
  /\ topic_table' = topic_table \cup
       {[input |-> inp,
         topic |-> Topic(meter_prefix, inp.entity_type, inp.mname, inp.name,
                         SensorName(inp), "state")]}
  /\ UNCHANGED <<endpointVars, mqttVars, mpc, cancelled, process, http_down,
                 meter, setup_pc, setup_attempt, setup_waits, hw_failures, hw_identified,
                 setup_error, initalized, run_task, polls, endpoints_file,
                 device_config_log, meter_prefix, meter_name,
                 meter_topic_prefix, endpoint_topic_prefix, state_topics>>

NextTopic ==
  \/ EvalMeterTopicPrefix
  \/ EvalEndpointTopicPrefix
  \/ \E i \in 1..Len(ConfigNames(TopicSchema)) : CreateConfig(i)
  \/ \E inp \in TopicInputs : CreateConfigFor(inp)

SpecTopic == InitTopic /\ [][NextTopic]_vars

\* C19: with prefix 'homeassistant' and meter name 'Meter A (123)' the
\* state topics recorded for the leaves lFDI, Reading+Voltage and
\* Reading+Current are the five-segment topics
\* homeassistant/sensor/meter_a_123/<sensor name>/state.
C19_StateTopicFiveSegments ==
  (meter_prefix = <<"homeassistant">> /\ meter_name = <<"Meter", " ", "A", " ", "(123)">>)
    => state_topics \subseteq
         {"homeassistant/sensor/meter_a_123/lFDI/state",
          "homeassistant/sensor/meter_a_123/ReadingVoltage/state",
          "homeassistant/sensor/meter_a_123/ReadingCurrent/state"}

\* The string of these pieces does not end in "/".
NoTrailingSeparator(pieces) == pieces = <<>> \/ pieces[Len(pieces)] # "/"

\* C20: for every configured prefix, mqtt_topic_prefix of the meter and
\* of the Endpoint returns, without raising, a string that does not end
\* in "/".
C20_PrefixStripped ==
  /\ meter_topic_prefix.outcome \in {"none", "returned"}
  /\ NoTrailingSeparator(meter_topic_prefix.value)
  /\ endpoint_topic_prefix.outcome \in {"none", "returned"}
  /\ NoTrailingSeparator(endpoint_topic_prefix.value)


(***************************************************************************)
(* C21: topic naming is injective.                                         *)
(***************************************************************************)
\* C21: two create_config calls whose arguments differ (device id, meter
\* or Endpoint name, key and variant name, or entity kind) never compose
\* the same state topic.
C21_TopicInjective ==
  \A r1, r2 \in topic_table : r1.input # r2.input => r1.topic # r2.topic


(***************************************************************************)
(* XcelEndpoint.mqtt_send_config branch by branch (SpecConfig).  gather    *)
(* schedules one task per leaf (a scalar key, or an item of a list key;    *)
(* the tasks of the items are scheduled by process_list's own gather).  A  *)
(* task runs without suspension from its start through popitem and         *)
(* create_config into mqtt_publish, where it awaits Mqtt.publish.          *)
(***************************************************************************)
RECURSIVE ItemBranches(_, _)
ItemBranches(k, items) ==
  IF items = <<>> THEN <<>>
  ELSE <<[raises |-> ItemRaises(Head(items)),
          sensor_name |-> IF ItemRaises(Head(items)) THEN ""
                          ELSE k \o PopItem(Head(items))]>>
       \o ItemBranches(k, Tail(items))

\* The leaf branches of mqtt_send_config for the tags tgs, in dict order.
RECURSIVE ConfigBranches(_)
ConfigBranches(tgs) ==
  IF tgs = <<>> THEN <<>>
  ELSE (IF Head(tgs).islist THEN ItemBranches(Head(tgs).k, Head(tgs).items)
        ELSE <<[raises |-> FALSE, sensor_name |-> Head(tgs).k]>>)
       \o ConfigBranches(Tail(tgs))

\* A create_config that does not record the state topic.
RecordStateTopicSkipped(topics, sensor_name, state_topic) == topics

\* create_config: self._sensor_state_topics[sensor_name] = payload['state_topic']
RecordStateTopic(topics, sensor_name, state_topic) ==
  DictSet(topics, sensor_name, state_topic)

\* create_endpoint: __init__, then mqtt_send_config reaches its gather,
\* which schedules the branches (and returns at once when there is none).
SendConfigStart(e) ==
  /\ epc[e] = "absent"
  /\ config_branch' = [config_branch EXCEPT ![e] =
       [i \in 1..Len(ConfigBranches(tags[e])) |-> "scheduled"]]
  /\ epc' = [epc EXCEPT ![e] =
       IF ConfigBranches(tags[e]) = <<>> THEN "ready" ELSE "configuring"]
  /\ UNCHANGED <<tags, sensor_state_topics, attempt_number, waits, http_failures,
                 raised_error, response, current_response, pending, error,
                 state_log, config_log, mqttVars>>
  /\ UNCHANGED meterVars

\* Branch i runs up to its first await: popitem raises, or create_config
\* records the state topic and mqtt_publish begins the publish.
ConfigBranchRuns(e, i) ==
  /\ epc[e] \in {"configuring", "create_failed"}
  /\ i \in DOMAIN config_branch[e]
  /\ config_branch[e][i] = "scheduled"
  /\ LET b == ConfigBranches(tags[e])[i]
     IN IF b.raises
        THEN /\ config_branch' = [config_branch EXCEPT ![e][i] = "popitem_raised"]
             /\ UNCHANGED sensor_state_topics
        ELSE /\ config_branch' = [config_branch EXCEPT ![e][i] = "publishing"]
             /\ sensor_state_topics' = [sensor_state_topics EXCEPT ![e] =
                  RecordStateTopic(@, b.sensor_name,
                    create_config(e, b.sensor_name, Details).payload.state_topic)]
  /\ UNCHANGED <<tags, epc, attempt_number, waits, http_failures,
                 raised_error, response, current_response, pending, error,
                 state_log, config_log, mqttVars>>
  /\ UNCHANGED meterVars

\* The Mqtt.publish branch i awaits ends: the client took the config, or
\* the publish raised.
ConfigBranchPublishEnds(e, i) ==
  /\ epc[e] \in {"configuring", "create_failed"}
  /\ i \in DOMAIN config_branch[e]
  /\ config_branch[e][i] = "publishing"
  /\ \E connect_ok \in BOOLEAN, publish_ok \in BOOLEAN :
       \E taken \in BOOLEAN :
         /\ MqttPublish(connect_ok, publish_ok, taken)
         /\ config_branch' = [config_branch EXCEPT ![e][i] =
              IF taken THEN "done" ELSE "publish_raised"]
         /\ config_log' = [config_log EXCEPT ![e] =
              IF taken
              THEN Append(@, create_config(e, ConfigBranches(tags[e])[i].sensor_name,
                                           Details))
              ELSE @]
  /\ UNCHANGED <<tags, sensor_state_topics, epc, attempt_number, waits,
                 http_failures, raised_error, response, current_response,
                 pending, error, state_log>>
  /\ UNCHANGED meterVars

\* Every branch has returned: the gather, mqtt_send_config and
\* create_endpoint return.
SendConfigReturns(e) ==
  /\ epc[e] = "configuring"
  /\ \A i \in DOMAIN config_branch[e] : config_branch[e][i] = "done"
  /\ epc' = [epc EXCEPT ![e] = "ready"]
  /\ UNCHANGED <<tags, config_branch, sensor_state_topics, attempt_number, waits,
                 http_failures, raised_error, response, current_response,
                 pending, error, state_log, config_log, mqttVars>>
  /\ UNCHANGED meterVars

\* A branch has raised: the gather (return_exceptions is False) raises its
\* exception in mqtt_send_config at once, and create_endpoint raises; the
\* other branches are not cancelled.
SendConfigRaises(e) ==
  /\ epc[e] = "configuring"
  /\ \E i \in DOMAIN config_branch[e] :
       /\ config_branch[e][i] \in {"popitem_raised", "publish_raised"}
       /\ error' = [error EXCEPT ![e] =
            IF config_branch[e][i] = "popitem_raised" THEN "PopItemError"
            ELSE "MqttError"]
  /\ epc' = [epc EXCEPT ![e] = "create_failed"]
  /\ UNCHANGED <<tags, config_branch, sensor_state_topics, attempt_number, waits,
                 http_failures, raised_error, response, current_response,
                 pending, state_log, config_log, mqttVars>>
  /\ UNCHANGED meterVars

InitConfig ==
  /\ \E s \in Schemas : EndpointsInit([e \in EndpointIds |-> IF e = 1 THEN s ELSE <<>>])
  /\ MqttInit
  /\ MeterIdle

NextConfig ==
  \/ SendConfigStart(1)
  \/ \E i \in DOMAIN config_branch[1] : ConfigBranchRuns(1, i)
  \/ \E i \in DOMAIN config_branch[1] : ConfigBranchPublishEnds(1, i)
  \/ SendConfigReturns(1)
  \/ SendConfigRaises(1)

SpecConfig == InitConfig /\ [][NextConfig]_vars

\* Branch i has begun the publish of its discovery config.
PublishBegun(e, i) ==
  config_branch[e][i] \in {"publishing", "done", "publish_raised"}

\* The state topic of branch i's leaf is in the table.
EntryPopulated(e, i) ==
  LET b == ConfigBranches(tags[e])[i]
  IN /\ b.sensor_name \in DOMAIN sensor_state_topics[e]
     /\ sensor_state_topics[e][b.sensor_name] =
          create_config(e, b.sensor_name, Details).payload.state_topic

InClientConnect == {c \in Callers : cpc[c] = "client_connect"}
InClientDisconnect == {c \in Callers : cpc[c] = "client_disconnect"}

\* C23: at most one call of client.connect is in progress, and no call of
\* client.connect is in progress while a call of client.disconnect is,
\* whatever publish, subscribe, connect and disconnect calls interleave.
C23_ConnectDisconnectExclusive ==
  /\ Cardinality(InClientConnect) <= 1
  /\ InClientConnect = {} \/ InClientDisconnect = {}

\* C23 witness: a call of client.disconnect is in progress while another
\* task's connect() waits for the lock.
C23_Witness ==
  \E c, d \in Callers :
    /\ cpc[c] = "client_disconnect"
    /\ cpc[d] = "lock_wait"
    /\ cop[d] = "connect"


\* C24: while client.disconnect is in progress the watchdog task that
\* disconnect() cancelled has ended, and once disconnect() has returned
\* (connected is False) no watchdog is there to issue a ping.
C24_WatchdogEndsBeforeDisconnect ==
  /\ InClientDisconnect # {} => watchdog_task \in {"None", "done"}
  /\ ~connected => watchdog_task # "running"

\* C24 witness: disconnect() of a connected client whose watchdog had
\* pinged has returned.
C24_Witness ==
  \E c \in Callers :
    /\ cop[c] = "disconnect" /\ cpc[c] = "idle"
    /\ ~connected
    /\ watchdog_task = "done"
    /\ last_ping.result # "none"

\* C29: the call of client.publish or client.subscribe begins only while
\* connected is True.
C29_ClientCalledOnlyConnected ==
  [][\A c \in Callers :
       (cpc[c] \notin {"client_publish", "client_subscribe"}
        /\ cpc'[c] \in {"client_publish", "client_subscribe"}) => connected']_vars

\* C30: at most one task of _watchdog is alive, and none is while
\* connected is False.
C30_OneWatchdogOnlyConnected ==
  /\ watchdog_alive <= 1
  /\ watchdog_alive > 0 => connected

\* C30 witness: a connect failed, a later one succeeded, a disconnect()
\* ended the watchdog, and a reconnect started the one that is alive.
C30_Witness ==
  /\ watchdog_alive = 1
  /\ connected
  /\ Len(connect_results) = 3
  /\ connect_results[1] = "raised"
  /\ \E c \in Callers : op_log[c] # <<>> /\ op_log[c][1] = "disconnect"


(***************************************************************************)
(* The join of XcelMeter.run()'s gather (Spec).                            *)
(***************************************************************************)
\* C25: when the gather over the Endpoints' run() has handed control back
\* to XcelMeter.run(), by returning or by raising, every branch has ended:
\* no sibling of a failed branch is still running.
C25_JoinWaitsForAllBranches ==
  (process = "running" /\ mpc \in {"sleep", "raised"}) =>
    \A e \in EndpointIds : Finished(e)


(***************************************************************************)
(* Further properties of XcelMeter.setup() and main() (SpecMain).          *)
(***************************************************************************)
\* C26: an attempt of setup() in which the hardware was identified and
\* the device config was published ends with initalized = True: the step
\* out of create_endpoints is the successful return of setup().
C26_SetupSucceeds ==
  [][(setup_pc = "create_endpoints" /\ setup_pc' # "create_endpoints")
       => initalized'[meter]]_vars

\* The device discovery config of meter m has been published.
DeviceConfigPublished(m) == \E msg \in device_config_log : msg.meter = m

C28_DeviceInfoAssignedOnce ==
  \A m \in Meters : hw_identified[m] <= 1


(***************************************************************************)
(* Meters that share the Mqtt object, cancelled together (SpecMain).       *)
(***************************************************************************)
\* Every meter's run() was cancelled with main() and has ended.
AllRunsCancelledAndEnded ==
  cancelled /\ \A m \in Meters : run_task[m] = "done"

\* The handler of meter m's cancelled run() invokes client.disconnect in
\* this step: Mqtt.disconnect finds connected True.
RunInvokesClientDisconnect(m) ==
  run_task[m] = "disconnecting" /\ run_task'[m] = "done" /\ connected

\* C31: when the meters that share one Mqtt object are cancelled
\* together, client.disconnect is invoked by at most one of their run()s,
\* and once every run() has ended connected is False and no watchdog is
\* alive (so that nothing has reconnected the client).
C31_SharedDisconnectOnce ==
  /\ [](AllRunsCancelledAndEnded => (~connected /\ watchdog_alive = 0))
  /\ [][\A m \in Meters :
          (cancelled /\ RunInvokesClientDisconnect(m)) =>
            \A n \in Meters \ {m} : run_task[n] # "done"]_vars

====
